---- MODULE Spec2Model ----
(***************************************************************************)
(* State machines of pysocialforce's scene module: PedState (pedestrian    *)
(* state matrix, velocity capping, groups), EnvState (obstacle lines and   *)
(* their derived descriptors and sample points), the visualisation        *)
(* snapshot of sim_view.to_visualizable_state and what SimulationView      *)
(* does to a snapshot it renders.                                          *)
(*                                                                         *)
(* Numbers.  The program computes in IEEE doubles.  The model computes     *)
(* exactly, in integers that count 1/Unit: the double x is the integer     *)
(* x * Unit.  The pedestrian inputs are chosen so that the doubles are     *)
(* exact too: every state entry is a multiple of 1/8, the time step is     *)
(* 1/2, and every sum, product, quotient and square root the code takes    *)
(* of them is again such a number (axis-parallel vectors, multiples of     *)
(* the 3-4-5 triangle, and speeds that are a power of two times the        *)
(* agent's cap); ExactOK below states this and is checked with the         *)
(* model.  NaN is one reserved value outside the range of every input.     *)
(*                                                                         *)
(* Arrays.  A numpy array is a reference [buf, lo, hi] to a buffer of the  *)
(* heap (a matrix: a sequence of rows) restricted to the 1-based columns   *)
(* lo..hi.  A slice is a view on the same buffer; np.array, np.concatenate *)
(* and arithmetic allocate a new buffer.                                   *)
(***************************************************************************)
EXTENDS Integers, Sequences, FiniteSets, TLC

VARIABLES
    heap,                \* numpy buffers: buffer id -> matrix
    state,               \* PedState._state: an array reference
    groups,              \* PedState._groups: a list of lists of agent indices
    initial_speeds,      \* PedState.initial_speeds: None or Some(array value)
    max_speeds,          \* PedState.max_speeds: None or Some(array value)
    config,              \* default_tau, d_t, max_speed_multiplier of the PedState
    steps,               \* number of step() calls made (the simulator's timestep)
    built,               \* the constructor's arguments and the speeds it derived
    snapshot,            \* None or Some(VisualizableSimState handed to a consumer)
    scaling,             \* SimulationView.scaling of the consumer's view
    render_pc,           \* where the main thread is inside view.render
    key_pc,              \* where the view's event thread is inside a key handler
    states_out,          \* None or Some(result of get_states handed to a consumer)
    orig_obstacles,      \* EnvState._orig_obstacles
    resolution,          \* EnvState._resolution
    obstacles_raw,       \* EnvState._obstacles_raw
    obstacles_linspace,  \* EnvState._obstacles_linspace
    env_alive,           \* whether the EnvState constructor returned an object
    raised,              \* the exception the last call surfaced, "none" if none
    last                 \* the last call and its arguments

pedvars == <<heap, state, groups, initial_speeds, max_speeds, config, steps, built>>
viewctl == <<scaling, render_pc, key_pc>>
viewvars == <<snapshot, states_out, viewctl>>
envvars == <<orig_obstacles, resolution, obstacles_raw, obstacles_linspace, env_alive>>
vars == <<pedvars, viewvars, envvars, raised, last>>

-----------------------------------------------------------------------------
(* Numbers *)

\* 1.0 as a model integer.
Unit == 200

\* The doubles NaN and +Inf.
NaN == -1000000000

Inf == 1000000000

IsFinite(x) == x # NaN /\ x # Inf

\* Python's None and a present value.
None == <<>>
Some(x) == <<x>>

Abs(x) == IF x < 0 THEN -x ELSE x

Min(a, b) == IF a <= b THEN a ELSE b

RECURSIVE SqrtBetween(_, _, _)
\* The largest s in lo..hi with s * s <= n.
SqrtBetween(n, lo, hi) ==
    IF lo >= hi THEN lo
    ELSE LET mid == (lo + hi + 1) \div 2
         IN  IF mid * mid <= n THEN SqrtBetween(n, mid, hi)
             ELSE SqrtBetween(n, lo, mid - 1)

\* np.linalg.norm of one 2-vector: sqrt(x^2 + y^2), which lies in 0..|x|+|y|.
Norm(v) ==
    IF v[1] = NaN \/ v[2] = NaN THEN NaN
    ELSE SqrtBetween(v[1] * v[1] + v[2] * v[2], 0, Abs(v[1]) + Abs(v[2]))

\* Whether the norm of v is an integer of the model.
ExactNorm(v) == Norm(v) * Norm(v) = v[1] * v[1] + v[2] * v[2]

\* x * q for a configured rational q = <<numerator, denominator>>.
Times(x, q) == IF x = NaN THEN NaN ELSE (x * q[1]) \div q[2]

\* a + b of doubles.
Plus(a, b) == IF a = NaN \/ b = NaN THEN NaN ELSE a + b

-----------------------------------------------------------------------------
(* numpy arrays over a heap of buffers *)

Rows(m) == Len(m)

\* shape[1] of a matrix with at least one row.
Cols(m) == Len(m[1])

\* The smallest buffer id not in use.
Alloc(h) ==
    CHOOSE i \in 1..(Cardinality(DOMAIN h) + 1) :
        /\ i \notin DOMAIN h
        /\ \A j \in 1..(i - 1) : j \in DOMAIN h

\* The heap with a new buffer holding m.
Store(h, m) ==
    LET id == Alloc(h)
    IN  [i \in (DOMAIN h) \cup {id} |-> IF i = id THEN m ELSE h[i]]

\* A reference to the whole of buffer id.
Whole(h, id) == [buf |-> id, lo |-> 1, hi |-> Cols(h[id])]

\* ref[:, a:b], a view on the same buffer (Python's 0-based half-open slice,
\* clipped to the array's columns as numpy clips it).
Slice(ref, a, b) ==
    [buf |-> ref.buf, lo |-> ref.lo + a, hi |-> Min(ref.lo + b - 1, ref.hi)]

\* The value an array reference shows.
Deref(h, ref) ==
    [r \in 1..Rows(h[ref.buf]) |-> SubSeq(h[ref.buf][r], ref.lo, ref.hi)]

\* ref[:, :] = m: writes through the view into its buffer.
WriteThrough(h, ref, m) ==
    [h EXCEPT ![ref.buf] =
        [r \in 1..Rows(@) |->
            [c \in 1..Len(@[r]) |->
                IF c >= ref.lo /\ c <= ref.hi THEN m[r][c - ref.lo + 1] ELSE @[r][c]]]]

-----------------------------------------------------------------------------
(* PedState.  self is the record of the object's fields and the heap. *)

\* PedState.pos, vel, goal, tau: views on the state.
pos(self) == Slice(self.state, 0, 2)

vel(self) == Slice(self.state, 2, 4)

goal(self) == Slice(self.state, 4, 6)

tau(self) == Slice(self.state, 6, 7)

\* PedState.size.
size(self) == Rows(Deref(self.heap, self.state))

\* PedState.speeds: a new array.
speeds(self) ==
    LET v == Deref(self.heap, vel(self))
    IN  [i \in 1..Rows(v) |-> Norm(v[i])]

\* max_velocity / desired_speeds of one agent: a finite quotient, or what IEEE
\* division by zero gives (numpy warns and goes on).
Divide(a, b) ==
    IF a = NaN \/ b = NaN THEN [kind |-> "nan", n |-> 0, d |-> 1]
    ELSE IF b = 0 THEN (IF a = 0 THEN [kind |-> "nan", n |-> 0, d |-> 1]
                        ELSE [kind |-> "inf", n |-> 0, d |-> 1])
    ELSE [kind |-> "fin", n |-> a, d |-> b]

\* np.minimum(1.0, f): NaN propagates.
MinimumOne(f) ==
    IF f.kind = "nan" THEN f
    ELSE IF f.kind = "inf" THEN [kind |-> "fin", n |-> 1, d |-> 1]
    ELSE IF f.n >= f.d THEN [kind |-> "fin", n |-> 1, d |-> 1]
    ELSE f

\* x * factor of doubles.
Scaled(x, f) ==
    IF x = NaN \/ f.kind = "nan" THEN NaN
    ELSE IF f.kind = "inf" THEN (IF x = 0 THEN NaN ELSE Inf)
    ELSE (x * f.n) \div f.d

\* Variant: the factor of an agent at rest is left as the division gave it.
FactorKept(factor, desired_speeds) == factor

\* factor[desired_speeds == 0] = 0.0
ZeroWhereStill(factor, desired_speeds) ==
    [i \in 1..Len(factor) |->
        IF desired_speeds[i] = 0 THEN [kind |-> "fin", n |-> 0, d |-> 1]
        ELSE factor[i]]

\* Variant: the desired velocity is passed on uncapped.
Uncapped(desired_velocity, max_velocity) == desired_velocity

\* PedState.capped_velocity.
capped_velocity(desired_velocity, max_velocity) ==
    LET desired_speeds == [i \in 1..Len(desired_velocity) |-> Norm(desired_velocity[i])]
        quotient == [i \in 1..Len(desired_velocity) |->
                        MinimumOne(Divide(max_velocity[i], desired_speeds[i]))]
        factor == ZeroWhereStill(quotient, desired_speeds)
    IN  [i \in 1..Len(desired_velocity) |->
            <<Scaled(desired_velocity[i][1], factor[i]),
              Scaled(desired_velocity[i][2], factor[i])>>]

\* Variant: the speeds are derived anew at every assignment.
RederivedSpeeds(self, now) == Some(now)

\* The rule that keeps initial_speeds: set at the first assignment only.
AnchoredSpeeds(self, now) ==
    IF self.initial_speeds = None THEN Some(now) ELSE self.initial_speeds

\* Variant: a supplied tau column is overwritten with the default as well.
UpdateStateDefaultTau(self, st) ==
    LET m == Deref(self.heap, st)
        padded == [i \in 1..Rows(m) |->
                      IF Cols(m) < 7 THEN Append(m[i], self.config.tau)
                      ELSE [m[i] EXCEPT ![7] = self.config.tau]]
        h1 == Store(self.heap, padded)
        bound == [self EXCEPT !.heap = h1, !.state = Whole(h1, Alloc(self.heap))]
        init == AnchoredSpeeds(self, speeds(bound))
    IN  [bound EXCEPT
            !.initial_speeds = init,
            !.max_speeds = Some([i \in 1..Len(init[1]) |->
                                    Times(init[1][i], self.config.mult)])]

\* PedState._update_state (the state setter); st refers to the caller's array.
UpdateState(self, st) ==
    LET m == Deref(self.heap, st)
        tau_col == [i \in 1..Rows(m) |-> self.config.tau]
        padded == [i \in 1..Rows(m) |-> Append(m[i], tau_col[i])]
        h1 == IF Cols(m) < 7 THEN Store(self.heap, padded) ELSE self.heap
        s1 == IF Cols(m) < 7 THEN Whole(h1, Alloc(self.heap)) ELSE st
        bound == [self EXCEPT !.heap = h1, !.state = s1]
        init == AnchoredSpeeds(self, speeds(bound))
    IN  [bound EXCEPT
            !.initial_speeds = init,
            !.max_speeds = Some([i \in 1..Len(init[1]) |->
                                    Times(init[1][i], self.config.mult)])]

\* The groups setter; g is None or Some(list).
SetGroups(self, g) ==
    [self EXCEPT !.groups = IF g = None THEN <<>> ELSE g[1]]

\* PedState.update.
Update(self, st, g) == SetGroups(UpdateState(self, st), g)

\* PedState.__init__ on the caller's matrix m.
Construct(m, g, cfg) ==
    LET h == Store(<<>>, m)
        fresh == [heap |-> h, state |-> Whole(h, Alloc(<<>>)), groups |-> <<>>,
                  initial_speeds |-> None, max_speeds |-> None, config |-> cfg]
    IN  Update(fresh, Whole(h, Alloc(<<>>)), g)

\* Variant: the force is added without the time step.
DesiredVelocityNoDt(self, force) ==
    LET v == Deref(self.heap, vel(self))
    IN  [i \in 1..Rows(v) |->
            <<Plus(v[i][1], force[i][1]), Plus(v[i][2], force[i][2])>>]

\* self.vel() + self.d_t * force
DesiredVelocity(self, force) ==
    LET v == Deref(self.heap, vel(self))
    IN  [i \in 1..Rows(v) |->
            <<Plus(v[i][1], Times(force[i][1], self.config.dt)),
              Plus(v[i][2], Times(force[i][2], self.config.dt))>>]

\* PedState.step; g is the groups argument, None or Some(list).
StepPed(self, force, g) ==
    LET desired_velocity == capped_velocity(DesiredVelocity(self, force),
                                            self.max_speeds[1])
        next_state == self.state
        p == Deref(self.heap, Slice(next_state, 0, 2))
        moved == [i \in 1..Rows(p) |->
                    <<Plus(p[i][1], Times(desired_velocity[i][1], self.config.dt)),
                      Plus(p[i][2], Times(desired_velocity[i][2], self.config.dt))>>]
        h1 == WriteThrough(self.heap, Slice(next_state, 0, 2), moved)
        h2 == WriteThrough(h1, Slice(next_state, 2, 4), desired_velocity)
        next_groups == IF g # None THEN g ELSE Some(self.groups)
    IN  Update([self EXCEPT !.heap = h2], next_state, next_groups)

RECURSIVE GroupScanLast(_, _, _)
\* Variant: the loop goes on after a match, so the last match wins.
GroupScanLast(gs, index, i) ==
    IF i > Len(gs) THEN -1
    ELSE LET later == GroupScanLast(gs, index, i + 1)
         IN  IF later # -1 THEN later
             ELSE IF \E k \in 1..Len(gs[i]) : gs[i][k] = index THEN i - 1
             ELSE -1

RECURSIVE GroupScan(_, _, _)
\* The loop of which_group from list position i (1-based) on; the result is
\* the 0-based position enumerate() gives.
GroupScan(gs, index, i) ==
    IF i > Len(gs) THEN -1
    ELSE IF \E k \in 1..Len(gs[i]) : gs[i][k] = index THEN i - 1
    ELSE GroupScan(gs, index, i + 1)

\* PedState.which_group.
which_group(gs, index) == GroupScan(gs, index, 1)

\* PedState.get_states: np.array([self.state]) is a new 3-dimensional array
\* of one matrix, [self.groups] a new list holding the group list.
get_states(self) ==
    LET h == Store(self.heap, <<Deref(self.heap, self.state)>>)
    IN  [heap |-> h, states |-> Alloc(self.heap), groups_list |-> <<self.groups>>]

-----------------------------------------------------------------------------
(* sim_view.to_visualizable_state *)

\* Variant: np.asarray(a), the array itself.
NpArrayShared(h, ref) == [heap |-> h, ref |-> ref]

\* np.array(a): a copy of the array in a buffer of its own.
NpArray(h, ref) ==
    [heap |-> Store(h, Deref(h, ref)),
     ref |-> [buf |-> Alloc(h), lo |-> 1, hi |-> ref.hi - ref.lo + 1]]

\* to_visualizable_state(step, (st, groups)); ped_vel and the two expanded
\* operands of np.concatenate are temporaries, ped_actions is the new
\* (N, 2, 2) array of segments position -> position + velocity.
to_visualizable_state(h, step, st) ==
    LET ped_pos == NpArray(h, Slice(st, 0, 2))
        ped_vel == NpArray(ped_pos.heap, Slice(st, 2, 4))
        p == Deref(ped_pos.heap, ped_pos.ref)
        v == Deref(ped_vel.heap, ped_vel.ref)
        actions == [i \in 1..Rows(p) |->
                       <<p[i], <<Plus(p[i][1], v[i][1]), Plus(p[i][2], v[i][2])>>>>]
    IN  [heap |-> Store(ped_pos.heap, actions),
         view |-> [timestep |-> step,
                   pedestrian_positions |-> ped_pos.ref,
                   ped_actions |-> [buf |-> Alloc(ped_pos.heap)]]]

-----------------------------------------------------------------------------
(* sim_view.SimulationView: the scaling field, the key handler that        *)
(* changes it and the in-place scaling of a rendered snapshot.  show()     *)
(* runs the key handler in a thread of its own, with no lock: render, in   *)
(* the main thread, reads self.scaling once for each array and again when  *)
(* it draws, and the handler may run between any two of these reads.  The  *)
(* drawing on the pygame surface is not state of the model.                *)

\* The default of the dataclass field scaling.
DefaultScaling == 15

\* x * scaling of doubles.
Scaled2(x, s) == IF x = NaN \/ x = Inf THEN x ELSE x * s

\* state.pedestrian_positions *= self.scaling: in place, in the buffer the
\* array lives in.
scale_positions(h, view, s) ==
    LET p == Deref(h, view.pedestrian_positions)
    IN  WriteThrough(h, view.pedestrian_positions,
            [i \in 1..Rows(p) |-> [c \in 1..Len(p[i]) |-> Scaled2(p[i][c], s)]])

\* state.ped_actions *= self.scaling: in place.
scale_actions(h, view, s) ==
    LET a == h[view.ped_actions.buf]
    IN  [h EXCEPT ![view.ped_actions.buf] =
            [i \in 1..Len(a) |->
                [e \in 1..Len(a[i]) |->
                    [c \in 1..Len(a[i][e]) |-> Scaled2(a[i][e][c], s)]]]]

\* What drawing raises when it reads the scaling s.  _draw_grid takes
\* range(.., .., 50 * s), a ValueError for step 0; if s turns 0 after
\* that, its labels divide by it: the numpy integer 0 / 0 is nan and
\* int(nan) a ValueError, a positive numpy integer / 0 is inf and int(inf)
\* an OverflowError, and the Python integer y / 0 a ZeroDivisionError.
draw_raises(s) ==
    IF s = 0 THEN {"ValueError", "OverflowError", "ZeroDivisionError"} ELSE {"none"}

\* K_PLUS: self.scaling += 1
key_plus(s) == s + 1

\* K_MINUS, first statement: self.scaling -= 1
key_minus(s) == s - 1

\* K_MINUS, second statement: if self.scaling < 1: self.scaling = 1
key_minus_floor(s) == IF s < 1 THEN 1 ELSE s

-----------------------------------------------------------------------------
(* EnvState.  A raw line is (start_x, end_x, start_y, end_y).               *)
(*                                                                         *)
(* Angles.  The lines of the model run along an axis or along a 3-4-5      *)
(* triangle, so every angle the code takes is q quarter turns plus a rest  *)
(* that is 0, atan(3/4) or atan(4/3); an angle is the record [q, rest],    *)
(* and its cosine and sine are exact fifths.                               *)

\* The default of the dataclass field _resolution.
DefaultResolution == 10

RECURSIVE GCD(_, _)
GCD(a, b) == IF b = 0 THEN a ELSE GCD(b, a % b)

\* The number n / d (d > 0) in lowest terms.
Ratio(n, d) ==
    LET g == GCD(Abs(n), d)
    IN  <<n \div g, d \div g>>

\* math.atan2(vec_y, vec_x), in (-pi, pi]; atan2(0, 0) is 0.
Atan2(vec_y, vec_x) ==
    LET q == IF vec_x > 0 /\ vec_y >= 0 THEN 0
             ELSE IF vec_x <= 0 /\ vec_y > 0 THEN 1
             ELSE IF vec_x < 0 /\ vec_y = 0 THEN 2
             ELSE IF vec_x < 0 /\ vec_y < 0 THEN -2
             ELSE IF vec_x >= 0 /\ vec_y < 0 THEN -1
             ELSE 0
        \* the vector turned back into the first quadrant
        ax == IF q = 0 THEN vec_x ELSE IF q = 1 THEN vec_y
              ELSE IF q = -1 THEN -vec_y ELSE -vec_x
        ay == IF q = 0 THEN vec_y ELSE IF q = 1 THEN -vec_x
              ELSE IF q = -1 THEN vec_x ELSE -vec_y
    IN  [q |-> q,
         rest |-> IF ay = 0 THEN "0"
                  ELSE IF 3 * ax = 4 * ay THEN "atan(3/4)"
                  ELSE "atan(4/3)"]

\* angle + k quarter turns, and angle % (2 * pi).
Turned(angle, k) == [angle EXCEPT !.q = @ + k]

Mod2Pi(angle) == [angle EXCEPT !.q = @ % 4]

RECURSIVE QuarterTurns(_, _)
\* The vector v turned counter-clockwise by k >= 0 quarter turns.
QuarterTurns(v, k) == IF k = 0 THEN v ELSE QuarterTurns(<<-v[2], v[1]>>, k - 1)

\* unit_vec: (cos(orient), sin(orient)), in 1/Unit.
unit_vec(angle) ==
    LET base == IF angle.rest = "0" THEN <<Unit, 0>>
                ELSE IF angle.rest = "atan(3/4)" THEN <<(4 * Unit) \div 5, (3 * Unit) \div 5>>
                ELSE <<(3 * Unit) \div 5, (4 * Unit) \div 5>>
    IN  QuarterTurns(base, angle.q % 4)

\* orient(line) of _update_obstacles_raw.
orient(line) ==
    LET start_x == line[1]
        end_x == line[2]
        start_y == line[3]
        end_y == line[4]
        vec_x == end_x - start_x
        vec_y == end_y - start_y
    IN  Mod2Pi(Turned(Atan2(vec_y, vec_x), 4))

\* Variant: the raw line is copied in the order it is given.
EndpointsAsGiven(line) == <<line[1], line[2], line[3], line[4]>>

\* The first four fields of a descriptor row.
Endpoints(line) ==
    LET start_x == line[1]
        end_x == line[2]
        start_y == line[3]
        end_y == line[4]
    IN  <<start_x, start_y, end_x, end_y>>

\* The shape of np.array(rows) for a list of equally long rows.
ShapeOf(rows) == IF Len(rows) = 0 THEN <<0>> ELSE <<Len(rows), Len(rows[1])>>

\* numpy's rule for dst[...] = src: the trailing dimensions of src must equal
\* those of dst or be 1.
Broadcasts(src, dst) ==
    /\ Len(src) <= Len(dst)
    /\ \A k \in 1..Len(src) :
        LET s == src[Len(src) - k + 1]
            t == dst[Len(dst) - k + 1]
        IN  s = t \/ s = 1

\* EnvState._update_obstacles_raw; lines is None or Some(list).  The result
\* is the returned array, or the exception an assignment into it raises.
update_obstacles_raw(lines) ==
    IF lines = None THEN [raised |-> "none", value |-> <<>>]
    ELSE
        LET obs_lines == lines[1]
            line_orients == [i \in 1..Len(obs_lines) |-> orient(obs_lines[i])]
            ortho_orients == [i \in 1..Len(obs_lines) |->
                                Mod2Pi(Turned(line_orients[i], 1))]
            ortho_vecs == [i \in 1..Len(obs_lines) |-> unit_vec(ortho_orients[i])]
            ends == [i \in 1..Len(obs_lines) |-> Endpoints(obs_lines[i])]
        IN  IF ~Broadcasts(ShapeOf(ends), <<Len(obs_lines), 4>>)
                THEN [raised |-> "ValueError", value |-> <<>>]
            ELSE IF ~Broadcasts(ShapeOf(ortho_vecs), <<Len(obs_lines), 2>>)
                THEN [raised |-> "ValueError", value |-> <<>>]
            ELSE [raised |-> "none",
                  value |-> [i \in 1..Len(obs_lines) |-> ends[i] \o ortho_vecs[i]]]

\* Variant: the product is rounded to the nearest integer.
SampleCountRounded(line, res) ==
    (2 * Norm(<<line[1] - line[2], line[3] - line[4]>>) * res + Unit) \div (2 * Unit)

\* int(np.linalg.norm((start_x - end_x, start_y - end_y)) * self._resolution)
SampleCount(line, res) ==
    LET start_x == line[1]
        end_x == line[2]
        start_y == line[3]
        end_y == line[4]
    IN  (Norm(<<start_x - end_x, start_y - end_y>>) * res) \div Unit

\* np.linspace(start, stop, num): num evenly spaced numbers, as ratios in 1/Unit.
Linspace(start, stop, num) ==
    [i \in 1..num |->
        IF num = 1 THEN Ratio(start, 1)
        ELSE Ratio(start * (num - 1) + (i - 1) * (stop - start), num - 1)]

\* EnvState._update_obstacles_linspace.
update_obstacles_linspace(lines, res) ==
    IF lines = None THEN <<>>
    ELSE [k \in 1..Len(lines[1]) |->
            LET line == lines[1][k]
                samples == SampleCount(line, res)
                xs == Linspace(line[1], line[2], samples)
                ys == Linspace(line[3], line[4], samples)
            IN  [i \in 1..samples |-> <<xs[i], ys[i]>>]]

-----------------------------------------------------------------------------
(* Inputs of the pedestrian model, in 1/Unit.  Rows are                    *)
(* pos_x, pos_y, vel_x, vel_y, goal_x, goal_y [, tau].                     *)

\* Number of step() calls explored.
MaxSteps == 2

\* Largest agent index asked of which_group.
MaxIndex == 5

\* Number of render() calls explored on one snapshot.
MaxRenders == 1

\* Largest scaling the K_PLUS key is explored up to.
MaxScaling == 16

\* The scenario of the documentation: two agents at the origin, speeds 1.0,
\* goals (10, 0) and (0, 10), tau 0.5.
Scenario7 == << <<0, 0, 200, 0, 2000, 0, 100>>, <<0, 0, 0, 200, 0, 2000, 100>> >>

\* Six columns: tau is left to the default.  The first agent moves at
\* (1.5, 2), speed 2.5; the second is at rest.
Diag6 == << <<0, 0, 300, 400, 2000, 0>>, <<200, 0, 0, 0, 0, 2000>> >>

\* Five columns.
Short5 == << <<0, 0, 200, 0, 2000>>, <<0, 0, 0, 200, 0>> >>

\* Seven columns, speeds 4.0; each agent brings its own tau (0.25 and 0.75),
\* neither the default.
Fast7 == << <<200, 0, 0, 800, 2000, 0, 50>>, <<0, 200, -800, 0, 0, 2000, 150>> >>

\* Six columns, speed 0.5 and an agent at rest.
Rest6 == << <<0, 0, 100, 0, 2000, 0>>, <<200, 0, 0, 0, 0, 2000>> >>

\* The matrices given to the constructor.
InputStates == {Scenario7, Diag6, Short5}

\* The matrices given to update and to the state setter.  Their speeds are
\* 0 or a power of two, so that the cap of an agent built from any of
\* InputStates divides them exactly in doubles.
UpdateStates == {Fast7, Rest6, Short5}

\* Group lists given to the constructor and to update; None is accepted.
GroupInputs ==
    {None, Some(<< <<0, 1>>, <<2>> >>), Some(<< <<0, 1>>, <<1, 2>> >>)}

\* The groups argument of step.
StepGroupInputs == {None, Some(<< <<1>>, <<0>> >>)}

\* What the caller assigns to peds.groups.
SetterGroupInputs == GroupInputs \cup StepGroupInputs

\* The scaling a SimulationView is constructed with.
Scalings == {DefaultScaling, 1}

\* default_tau = 0.5, d_t = 0.5, and max_speed_multiplier 0.5, 1 or 2.
Configs ==
    {[tau |-> 100, dt |-> <<1, 2>>, mult |-> m] : m \in {<<1, 2>>, <<1, 1>>, <<2, 1>>}}

\* The velocity 0 for every agent.
StopTarget(self) == [i \in 1..size(self) |-> <<0, 0>>]

\* For every agent a velocity of 4 times its cap: along (3, 4) where the cap
\* is 5 times a multiple of 1/8, else along (0, -1); (0, -1) itself for an
\* agent whose cap is 0.
OverTarget(self) ==
    [i \in 1..size(self) |->
        LET m == self.max_speeds[1][i]
        IN  IF m = 0 THEN <<0, -Unit>>
            ELSE IF m % (5 * (Unit \div 8)) = 0 THEN <<12 * (m \div 5), 16 * (m \div 5)>>
            ELSE <<0, -4 * m>>]

\* Velocities the driver's forces aim at in one step.
Targets(self) == {StopTarget(self), OverTarget(self)}

ZeroForce(self) == [i \in 1..size(self) |-> <<0, 0>>]

\* The force that makes velocity + d_t * force equal to the target.
ForceToward(self, target) ==
    LET v == Deref(self.heap, vel(self))
    IN  [i \in 1..Rows(v) |->
            <<((target[i][1] - v[i][1]) * self.config.dt[2]) \div self.config.dt[1],
              ((target[i][2] - v[i][2]) * self.config.dt[2]) \div self.config.dt[1]>>]

\* The force arrays the driver passes to step.
Forces(self) == {ZeroForce(self)} \cup {ForceToward(self, t) : t \in Targets(self)}

-----------------------------------------------------------------------------
(* The pedestrian state machine *)

Self ==
    [heap |-> heap, state |-> state, groups |-> groups,
     initial_speeds |-> initial_speeds, max_speeds |-> max_speeds, config |-> config]

\* The buffers the consumers' arrays live in.
ViewBufs(snap, out) ==
    (IF snap = None THEN {}
     ELSE {snap[1].view.pedestrian_positions.buf, snap[1].view.ped_actions.buf})
    \cup (IF out = None THEN {} ELSE {out[1].states})

\* Buffer ids have no meaning to the program.  After a call the live buffers
\* are renamed by the first holder of each: the PedState's state 1, a
\* snapshot's positions 2 and segments 3, a get_states result 4; the rest is
\* garbage and is dropped.
NewId(b, st, snap, out) ==
    IF b = st.buf THEN 1
    ELSE IF snap # None /\ b = snap[1].view.pedestrian_positions.buf THEN 2
    ELSE IF snap # None /\ b = snap[1].view.ped_actions.buf THEN 3
    ELSE 4

\* self, snap and out become the next state.
Becomes(self, snap, out) ==
    LET live == {self.state.buf} \cup ViewBufs(snap, out)
        id(b) == NewId(b, self.state, snap, out)
    IN  /\ heap' = [k \in {id(b) : b \in live} |->
                       self.heap[CHOOSE b \in live : id(b) = k]]
        /\ state' = [self.state EXCEPT !.buf = id(@)]
        /\ snapshot' =
               IF snap = None THEN None
               ELSE Some([snap[1] EXCEPT !.view.pedestrian_positions.buf = id(@),
                                         !.view.ped_actions.buf = id(@)])
        /\ states_out' =
               IF out = None THEN None ELSE Some([out[1] EXCEPT !.states = id(@)])
        /\ groups' = self.groups
        /\ initial_speeds' = self.initial_speeds
        /\ max_speeds' = self.max_speeds
        /\ config' = self.config

\* The record of a call: its name, its state or line-list argument (for step,
\* the state matrix it found), its force and groups arguments, and for a query
\* its argument and result.
Call(op, st, force, g) ==
    [op |-> op, st |-> st, force |-> force, g |-> g, arg |-> None, ret |-> None]

\* An EnvState built from None.
EnvIdle ==
    /\ orig_obstacles = None
    /\ resolution = DefaultResolution
    /\ obstacles_raw = <<>>
    /\ obstacles_linspace = <<>>
    /\ env_alive = TRUE

\* A SimulationView built with the defaults; no render and no key handler
\* is under way.
ViewIdle ==
    /\ scaling = DefaultScaling
    /\ render_pc = "idle"
    /\ key_pc = "idle"

\* PedState(state, groups, config) has returned.
InitPed ==
    \E m \in InputStates, g \in GroupInputs, cfg \in Configs :
        LET self == Construct(m, g, cfg)
        IN  /\ heap = (1 :> self.heap[self.state.buf])
            /\ state = [self.state EXCEPT !.buf = 1]
            /\ groups = self.groups
            /\ initial_speeds = self.initial_speeds
            /\ max_speeds = self.max_speeds
            /\ config = self.config
            /\ steps = 0
            /\ built = [st |-> m, g |-> g, initial_speeds |-> self.initial_speeds,
                        max_speeds |-> self.max_speeds]
            /\ snapshot = None
            /\ states_out = None
            /\ raised = "none"
            /\ last = Call("construct", m, <<>>, g)

Init == InitPed /\ EnvIdle /\ ViewIdle

\* peds.update(m, g)
DoUpdate ==
    \E m \in UpdateStates, g \in GroupInputs :
        LET h == Store(heap, m)
            self == Update([Self EXCEPT !.heap = h], Whole(h, Alloc(heap)), g)
        IN  /\ UNCHANGED <<steps, built, viewctl, envvars>>
            /\ Becomes(self, snapshot, states_out)
            /\ raised' = "none"
            /\ last' = Call("update", m, <<>>, g)

\* peds.state = m: the state setter alone; the groups stay.
DoSetState ==
    \E m \in UpdateStates :
        LET h == Store(heap, m)
            self == UpdateState([Self EXCEPT !.heap = h], Whole(h, Alloc(heap)))
        IN  /\ UNCHANGED <<steps, built, viewctl, envvars>>
            /\ Becomes(self, snapshot, states_out)
            /\ raised' = "none"
            /\ last' = Call("set_state", m, <<>>, None)

\* peds.groups = g: the groups setter alone; the state stays.
DoSetGroups ==
    \E g \in SetterGroupInputs :
        /\ groups' = SetGroups(Self, g).groups
        /\ raised' = "none"
        /\ last' = Call("set_groups", Deref(heap, state), <<>>, g)
        /\ UNCHANGED <<heap, state, initial_speeds, max_speeds, config, steps, built,
                       viewvars, envvars>>

\* peds.step(force, g)
DoStep ==
    /\ render_pc = "idle"
    /\ steps < MaxSteps
    /\ \E force \in Forces(Self), g \in StepGroupInputs :
        /\ UNCHANGED <<built, viewctl, envvars>>
        /\ Becomes(StepPed(Self, force, g), snapshot, states_out)
        /\ steps' = steps + 1
        /\ raised' = "none"
        /\ last' = Call("step", Deref(heap, state), force, g)

\* A consumer is handed to_visualizable_state(steps, (peds.state, peds.groups)).
DoSnapshot ==
    /\ render_pc = "idle"
    /\ LET made == to_visualizable_state(heap, steps, state)
           snap == [view |-> made.view,
                    handed |-> [positions |-> Deref(made.heap, made.view.pedestrian_positions),
                                actions |-> made.heap[made.view.ped_actions.buf]],
                    rendered |-> 0]
       IN  Becomes([Self EXCEPT !.heap = made.heap], Some(snap), states_out)
    /\ UNCHANGED <<steps, built, viewctl, envvars>>
    /\ raised' = "none"
    /\ last' = Call("snapshot", Deref(heap, state), <<>>, None)

\* A consumer is handed peds.get_states().
DoGetStates ==
    /\ render_pc = "idle"
    /\ LET got == get_states(Self)
           out == [states |-> got.states, groups_list |-> got.groups_list,
                   handed |-> got.heap[got.states]]
       IN  Becomes([Self EXCEPT !.heap = got.heap], snapshot, Some(out))
    /\ UNCHANGED <<steps, built, viewctl, envvars>>
    /\ raised' = "none"
    /\ last' = Call("get_states", Deref(heap, state), <<>>, None)

\* view.render(snapshot), first statement of _scale_pedestrian_state: the
\* positions of the snapshot are scaled by the scaling read now.
RenderScalePositions ==
    /\ render_pc = "idle"
    /\ snapshot # None
    /\ snapshot[1].rendered < MaxRenders
    /\ Becomes([Self EXCEPT !.heap = scale_positions(heap, snapshot[1].view, scaling)],
               snapshot, states_out)
    /\ render_pc' = "positions"
    /\ UNCHANGED <<steps, built, scaling, key_pc, envvars, raised, last>>

\* Second statement: the segments are scaled by the scaling read now.
RenderScaleActions ==
    /\ render_pc = "positions"
    /\ Becomes([Self EXCEPT !.heap = scale_actions(heap, snapshot[1].view, scaling)],
               snapshot, states_out)
    /\ render_pc' = "draw"
    /\ UNCHANGED <<steps, built, scaling, key_pc, envvars, raised, last>>

\* render draws, reading the scaling again, and returns or raises; rendered
\* counts the calls on this snapshot.
RenderDraw ==
    /\ render_pc = "draw"
    /\ \E e \in draw_raises(scaling) : raised' = e
    /\ Becomes(Self, Some([snapshot[1] EXCEPT !.rendered = @ + 1]), states_out)
    /\ render_pc' = "idle"
    /\ last' = Call("render", Deref(heap, state), <<>>, None)
    /\ UNCHANGED <<steps, built, scaling, key_pc, envvars>>

\* The view's event thread handles a K_PLUS.
KeyPlus ==
    /\ key_pc = "idle"
    /\ key_plus(scaling) <= MaxScaling
    /\ scaling' = key_plus(scaling)
    /\ UNCHANGED <<pedvars, snapshot, states_out, render_pc, key_pc, envvars, raised, last>>

\* The event thread handles a K_MINUS: the decrement ...
KeyMinus ==
    /\ key_pc = "idle"
    /\ scaling' = key_minus(scaling)
    /\ key_pc' = "decremented"
    /\ UNCHANGED <<pedvars, snapshot, states_out, render_pc, envvars, raised, last>>

\* ... and, in a statement of its own, the floor at 1.
KeyMinusFloor ==
    /\ key_pc = "decremented"
    /\ scaling' = key_minus_floor(scaling)
    /\ key_pc' = "idle"
    /\ UNCHANGED <<pedvars, snapshot, states_out, render_pc, envvars, raised, last>>

\* peds.which_group(index)
DoWhichGroup ==
    \E index \in 0..MaxIndex :
        /\ last' = [Call("which_group", Deref(heap, state), <<>>, None)
                        EXCEPT !.arg = Some(index),
                               !.ret = Some(which_group(groups, index))]
        /\ raised' = "none"
        /\ UNCHANGED <<pedvars, viewvars, envvars>>

\* The simulation driver: construct, then update, step and ask for groups.
Next == DoUpdate \/ DoSetState \/ DoSetGroups \/ DoStep \/ DoWhichGroup

Spec == Init /\ [][Next]_vars

\* The driver with a consumer of snapshots beside it.
NextView ==
    \/ DoStep \/ DoSnapshot \/ DoGetStates
    \/ RenderScalePositions \/ RenderScaleActions \/ RenderDraw

ViewSpec == Init /\ [][NextView]_vars

\* SimulationView(scaling = s) has returned and show() started its event
\* thread.
InitView ==
    /\ \E s \in Scalings : scaling = s
    /\ render_pc = "idle"
    /\ key_pc = "idle"

\* The state after construction of the RenderSpec below (PedIdle is defined
\* with the obstacle machine).
RenderInit ==
    /\ \E m \in InputStates :
        LET self == Construct(m, None, [tau |-> 100, dt |-> <<1, 2>>, mult |-> <<1, 1>>])
        IN  /\ heap = (1 :> self.heap[self.state.buf])
            /\ state = [self.state EXCEPT !.buf = 1]
            /\ groups = self.groups
            /\ initial_speeds = self.initial_speeds
            /\ max_speeds = self.max_speeds
            /\ config = self.config
            /\ steps = 0
            /\ built = [st |-> m, g |-> None, initial_speeds |-> self.initial_speeds,
                        max_speeds |-> self.max_speeds]
            /\ snapshot = None
            /\ states_out = None
            /\ raised = "none"
            /\ last = Call("construct", m, <<>>, None)
    /\ EnvIdle
    /\ InitView

\* A consumer that takes snapshots and renders them while keys are pressed.
NextRender ==
    \/ DoSnapshot
    \/ RenderScalePositions \/ RenderScaleActions \/ RenderDraw
    \/ KeyPlus \/ KeyMinus \/ KeyMinusFloor

RenderSpec == RenderInit /\ [][NextRender]_vars

-----------------------------------------------------------------------------
(* The obstacle state machine.  Coordinates are multiples of 1/8, which    *)
(* are exact as doubles, so that int() truncates the same number in the    *)
(* program and in the model.                                               *)

\* Longest line list explored.
MaxLines == 2

\* (0, 10, 0, 0): the horizontal line of the documentation.
LineEast == <<0, 2000, 0, 0>>

\* From (0, 0) to (1.5, 2): along a 3-4-5 triangle, length 2.5.
LineDiag == <<0, 300, 0, 400>>

\* From (1, 0) to (-1, -1.5): the 3-4-5 direction in the third quadrant.
LineBack == <<200, -200, 0, -300>>

\* Length 0.375, eastwards.
LineShort == <<0, 75, 0, 0>>

\* Length 0.125, from (1, 0.125) down to (1, 0).
LineTiny == <<200, 200, 25, 0>>

\* Length 0.

LinePoint == <<200, 200, 200, 200>>

Lines == {LineEast, LineDiag, LineBack, LineShort, LineTiny, LinePoint}

RECURSIVE ListsUpTo(_)
\* The lists of at most n lines.
ListsUpTo(n) ==
    IF n = 0 THEN {<<>>}
    ELSE ListsUpTo(n - 1) \cup
         {Append(l, x) : l \in {m \in ListsUpTo(n - 1) : Len(m) = n - 1}, x \in Lines}

\* What the caller passes as obstacles: None or a list of lines.
ObstacleInputs == {None} \cup {Some(l) : l \in ListsUpTo(MaxLines)}

Resolutions == {DefaultResolution, 4}

\* A PedState built from the documented scenario, left alone.
PedIdle ==
    LET self == Construct(Scenario7, None, [tau |-> 100, dt |-> <<1, 2>>, mult |-> <<1, 1>>])
    IN  /\ heap = (1 :> self.heap[self.state.buf])
        /\ state = [self.state EXCEPT !.buf = 1]
        /\ groups = self.groups
        /\ initial_speeds = self.initial_speeds
        /\ max_speeds = self.max_speeds
        /\ config = self.config
        /\ steps = 0
        /\ built = [st |-> Scenario7, g |-> None, initial_speeds |-> self.initial_speeds,
                    max_speeds |-> self.max_speeds]
        /\ snapshot = None
        /\ states_out = None

\* EnvState(lines, res) has returned or raised: __post_init__ derives the
\* descriptors, then the samples.
InitEnv ==
    \E lines \in ObstacleInputs, res \in Resolutions :
        LET raw == update_obstacles_raw(lines)
        IN  /\ orig_obstacles = lines
            /\ resolution = res
            /\ raised = raw.raised
            /\ env_alive = (raw.raised = "none")
            /\ obstacles_raw = raw.value
            /\ obstacles_linspace =
                   IF raw.raised = "none" THEN update_obstacles_linspace(lines, res)
                   ELSE <<>>
            /\ last = Call("EnvState", lines, <<>>, None)

\* env.obstacles = lines: the setter stores the lines, then derives the
\* descriptors, then the samples; an exception leaves the rest as it was.
DoSetObstacles ==
    /\ env_alive
    /\ \E lines \in ObstacleInputs :
        LET raw == update_obstacles_raw(lines)
        IN  /\ orig_obstacles' = lines
            /\ raised' = raw.raised
            /\ obstacles_raw' = IF raw.raised = "none" THEN raw.value ELSE obstacles_raw
            /\ obstacles_linspace' =
                   IF raw.raised = "none"
                   THEN update_obstacles_linspace(lines, resolution)
                   ELSE obstacles_linspace
            /\ last' = Call("set_obstacles", lines, <<>>, None)
            /\ UNCHANGED <<pedvars, viewvars, resolution, env_alive>>

NextEnv == DoSetObstacles

EnvInit == PedIdle /\ ViewIdle /\ InitEnv

EnvSpec == EnvInit /\ [][NextEnv]_vars

-----------------------------------------------------------------------------
(* Properties.  Speeds and lengths are compared by their squares, so that  *)
(* no property rests on the model's square root.                           *)

StateNow == Deref(heap, state)

Agents == 1..Rows(StateNow)

PosOf(m, i) == <<m[i][1], m[i][2]>>

VelOf(m, i) == <<m[i][3], m[i][4]>>

Sq(v) == v[1] * v[1] + v[2] * v[2]

\* velocity + d_t * force of agent i at the last step, times the denominator
\* of d_t.
DesiredTimesDen(i) ==
    <<VelOf(last.st, i)[1] * config.dt[2] + last.force[i][1] * config.dt[1],
      VelOf(last.st, i)[2] * config.dt[2] + last.force[i][2] * config.dt[1]>>

\* The agent's frozen max_speed: multiplier * speed at construction, squared
\* and times the squared denominator of the multiplier.
FrozenMaxSqTimesDen(i) == Sq(VelOf(built.st, i)) * config.mult[1] * config.mult[1]

AllFinite(m) == \A i \in 1..Rows(m) : \A c \in 1..Len(m[i]) : IsFinite(m[i][c])

\* x is a multiple of 1/8, and so a double.
IsEighth(x) == x % (Unit \div 8) = 0

\* The doubles of the program are the numbers of the model: every state
\* entry is a multiple of 1/8, the time step is 1/2, and in the last step
\* the desired velocity, its norm, the quotient cap / speed (a multiple of
\* 1/64 where it is below 1) and the capped velocity were exact.
ExactOK ==
    /\ config.dt = <<1, 2>>
    /\ \A i \in Agents : \A c \in 1..Len(StateNow[i]) : IsEighth(StateNow[i][c])
    /\ \A i \in Agents : IsEighth(max_speeds[1][i])
    /\ last.op = "step" =>
        \A i \in Agents :
            LET d == DesiredTimesDen(i)
                dd == <<d[1] \div config.dt[2], d[2] \div config.dt[2]>>
                m == max_speeds[1][i]
            IN  /\ d[1] % config.dt[2] = 0 /\ d[2] % config.dt[2] = 0
                /\ IsEighth(dd[1]) /\ IsEighth(dd[2])
                /\ ExactNorm(dd)
                /\ Norm(dd) > m => /\ (64 * m) % Norm(dd) = 0
                                   /\ (dd[1] * m) % Norm(dd) = 0
                                   /\ (dd[2] * m) % Norm(dd) = 0
                /\ (VelOf(StateNow, i)[1] * config.dt[1]) % config.dt[2] = 0
                /\ (VelOf(StateNow, i)[2] * config.dt[1]) % config.dt[2] = 0

\* C1: after every step(force), whatever the force and however many steps
\* came before, every agent's speed is at most its frozen max_speed, which is
\* max_speed_multiplier times the speed it had at the first state assignment.
C1_SpeedWithinFrozenMax ==
    last.op = "step" =>
        \A i \in Agents :
            /\ IsFinite(VelOf(StateNow, i)[1]) /\ IsFinite(VelOf(StateNow, i)[2])
            /\ Sq(VelOf(StateNow, i)) * config.mult[2] * config.mult[2]
                   <= FrozenMaxSqTimesDen(i)

\* A second or later step whose force asked for more than max_speed, and the
\* agent now moves at exactly max_speed.
C1_Witness ==
    /\ last.op = "step"
    /\ steps >= 2
    /\ \E i \in Agents :
        /\ Sq(DesiredTimesDen(i)) * config.mult[2] * config.mult[2]
               > FrozenMaxSqTimesDen(i) * config.dt[2] * config.dt[2]
        /\ Sq(VelOf(StateNow, i)) * config.mult[2] * config.mult[2]
               = FrozenMaxSqTimesDen(i)
        /\ Sq(VelOf(StateNow, i)) > 0

\* C2: initial_speeds and max_speeds are fixed by the constructor's state
\* assignment: no later update(state, groups) and no step() changes them.
C2_SpeedsAnchored ==
    /\ initial_speeds = built.initial_speeds
    /\ max_speeds = built.max_speeds
    /\ initial_speeds # None
    /\ max_speeds # None

\* After a step, update() has just put in a state whose speeds are not the
\* constructor's.
C2_Witness ==
    /\ last.op = "update"
    /\ steps >= 1
    /\ last.st # built.st
    /\ \E i \in Agents : Sq(VelOf(StateNow, i)) # Sq(VelOf(built.st, i))

\* C3: assigning a state matrix whose column count is neither 6 nor at least
\* 7 fails with InvalidStateShape, surfaced by the constructor or the
\* assignment.
C3_ShapeRejected ==
    (last.op \in {"construct", "update", "set_state"} /\ Cols(last.st) # 6 /\ Cols(last.st) < 7)
        => raised = "InvalidStateShape"

\* C4: constructing EnvState with an empty obstacle list or None, or assigning
\* one through the obstacles setter, raises nothing and leaves zero
\* descriptor rows and an empty sample list.
C4_EmptyObstaclesAccepted ==
    (last.op \in {"EnvState", "set_obstacles"} /\ last.st \in {None, Some(<<>>)})
        => /\ raised = "none"
           /\ Len(obstacles_raw) = 0
           /\ obstacles_linspace = <<>>

\* The derived structures are those of the current line list.
Derived == raised = "none" /\ orig_obstacles # None

LenSq(line) ==
    (line[1] - line[2]) * (line[1] - line[2]) + (line[3] - line[4]) * (line[3] - line[4])

\* c = floor(length * r), and c = length * r rounded to a nearest integer.
IsTruncation(c, line, r) ==
    /\ c >= 0
    /\ (c * Unit) * (c * Unit) <= LenSq(line) * r * r
    /\ LenSq(line) * r * r < ((c + 1) * Unit) * ((c + 1) * Unit)

IsRounding(c, line, r) ==
    /\ c >= 0
    /\ 4 * LenSq(line) * r * r <= ((2 * c + 1) * Unit) * ((2 * c + 1) * Unit)
    /\ c > 0 => ((2 * c - 1) * Unit) * ((2 * c - 1) * Unit) <= 4 * LenSq(line) * r * r

\* C5 as stated: the number of sample points of every line is
\* round(euclidean_length * resolution).
C5_CountIsRounded ==
    Derived =>
        /\ Len(obstacles_linspace) = Len(orig_obstacles[1])
        /\ \A k \in 1..Len(orig_obstacles[1]) :
            IsRounding(Len(obstacles_linspace[k]), orig_obstacles[1][k], resolution)

\* C5 amended: the number of sample points of every line is
\* euclidean_length * resolution truncated to an integer (int()); a line of
\* length 0 gets no point.
C5_CountIsTruncated ==
    Derived =>
        /\ Len(obstacles_linspace) = Len(orig_obstacles[1])
        /\ \A k \in 1..Len(orig_obstacles[1]) :
            /\ IsTruncation(Len(obstacles_linspace[k]), orig_obstacles[1][k], resolution)
            /\ LenSq(orig_obstacles[1][k]) = 0 => obstacles_linspace[k] = <<>>

\* A line of length 0.375 at resolution 10 has 3 points (3.75 truncated, not
\* rounded), beside a line of length 0 with none.
C5_Witness ==
    /\ Derived
    /\ resolution = 10
    /\ orig_obstacles = Some(<<LineShort, LinePoint>>)
    /\ Len(obstacles_linspace[1]) = 3
    /\ Len(obstacles_linspace[2]) = 0

\* C6: an agent whose desired velocity (velocity + dt * force) is exactly
\* zero gets velocity exactly (0, 0) and keeps its position, whatever its
\* max_speed; and the state never holds NaN or Inf.
C6_StillStaysStill ==
    /\ AllFinite(StateNow)
    /\ last.op = "step" =>
        \A i \in Agents :
            DesiredTimesDen(i) = <<0, 0>> =>
                /\ VelOf(StateNow, i) = <<0, 0>>
                /\ PosOf(StateNow, i) = PosOf(last.st, i)

\* One step stopped a moving agent with max_speed > 0 and left an agent with
\* max_speed 0 at rest.
C6_Witness ==
    /\ last.op = "step"
    /\ \E i \in Agents :
        /\ DesiredTimesDen(i) = <<0, 0>>
        /\ max_speeds[1][i] = 0
    /\ \E j \in Agents :
        /\ DesiredTimesDen(j) = <<0, 0>>
        /\ max_speeds[1][j] > 0
        /\ VelOf(last.st, j) # <<0, 0>>

\* v is d capped to speed m (d and m times the same denominator den): d
\* itself if it is no faster than m, else the vector along d of length m.
IsCapped(v, d, den, mSqTimesDen, multDen) ==
    IF Sq(d) * multDen * multDen <= mSqTimesDen * den * den
    THEN v[1] * den = d[1] /\ v[2] * den = d[2]
    ELSE /\ v[1] * d[2] = v[2] * d[1]
         /\ v[1] * d[1] + v[2] * d[2] >= 0
         /\ Sq(v) * multDen * multDen = mSqTimesDen

\* position = old position + dt * velocity
IsAdvanced(p, p0, v) ==
    /\ p[1] * config.dt[2] = p0[1] * config.dt[2] + v[1] * config.dt[1]
    /\ p[2] * config.dt[2] = p0[2] * config.dt[2] + v[2] * config.dt[1]

\* What every step does to agent i.
Integrated(i) ==
    /\ IsCapped(VelOf(StateNow, i), DesiredTimesDen(i), config.dt[2],
                FrozenMaxSqTimesDen(i), config.mult[2])
    /\ IsAdvanced(PosOf(StateNow, i), PosOf(last.st, i), VelOf(StateNow, i))

ForceWasZero == \A i \in Agents : last.force[i] = <<0, 0>>

Coasted(i) ==
    /\ VelOf(StateNow, i) = VelOf(last.st, i)
    /\ IsAdvanced(PosOf(StateNow, i), PosOf(last.st, i), VelOf(last.st, i))

\* C7 as stated: step(force) sets each velocity to capped(velocity + dt *
\* force) and each position to old position + dt * new velocity; with zero
\* force and a multiplier of at least 1 the velocity is unchanged and the
\* position advances by velocity * dt.
C7_StepCoastsUnderZeroForce ==
    last.op = "step" =>
        \A i \in Agents :
            /\ Integrated(i)
            /\ (ForceWasZero /\ config.mult[1] >= config.mult[2]) => Coasted(i)

\* C7 amended: step(force) sets each velocity to capped(velocity + dt *
\* force) and each position to old position + dt * new velocity; with zero
\* force an agent no faster than its frozen max_speed keeps its velocity and
\* advances by velocity * dt (so does every agent of the documented scenario
\* when the multiplier is at least 1: after one step its positions are
\* (dt, 0) and (0, dt)).
C7_StepIntegrates ==
    last.op = "step" =>
        /\ \A i \in Agents :
            /\ Integrated(i)
            /\ (/\ ForceWasZero
                /\ Sq(VelOf(last.st, i)) * config.mult[2] * config.mult[2]
                       <= FrozenMaxSqTimesDen(i))
                => Coasted(i)
        /\ (/\ ForceWasZero
            /\ config.mult[1] >= config.mult[2]
            /\ built.st = Scenario7
            /\ last.st = Scenario7)
            => /\ PosOf(StateNow, 1) = <<(Unit * config.dt[1]) \div config.dt[2], 0>>
               /\ PosOf(StateNow, 2) = <<0, (Unit * config.dt[1]) \div config.dt[2]>>
               /\ VelOf(StateNow, 1) = <<Unit, 0>>
               /\ VelOf(StateNow, 2) = <<0, Unit>>

\* The documented scenario after one step under zero force.
C7_Witness ==
    /\ last.op = "step"
    /\ steps = 1
    /\ ForceWasZero
    /\ config.mult[1] >= config.mult[2]
    /\ built.st = Scenario7
    /\ last.st = Scenario7
    /\ PosOf(StateNow, 1) = <<100, 0>>
    /\ PosOf(StateNow, 2) = <<0, 100>>

\* What the consumer's snapshot and get_states result hold now.
SnapshotHeld ==
    IF snapshot = None THEN None
    ELSE Some([positions |-> Deref(heap, snapshot[1].view.pedestrian_positions),
               actions |-> heap[snapshot[1].view.ped_actions.buf]])

StatesHeld == IF states_out = None THEN None ELSE Some(heap[states_out[1].states])

\* C8: what a consumer was handed by to_visualizable_state or get_states
\* does not alias the live state: every step() leaves the positions and the
\* action segments held by an already produced snapshot, and the returned
\* states array, as they were before the step (only the consumer's own
\* render() rescales its snapshot).  steps changes in step() and nowhere
\* else.
C8_StepsLeaveSnapshots ==
    [][steps' # steps => (SnapshotHeld' = SnapshotHeld /\ StatesHeld' = StatesHeld)]_vars

\* Steps moved the agents after a snapshot and a get_states result were handed
\* over.
C8_Witness ==
    /\ snapshot # None
    /\ states_out # None
    /\ last.op = "step"
    /\ SnapshotHeld = Some(snapshot[1].handed)
    /\ steps > snapshot[1].view.timestep
    /\ Deref(heap, pos(Self)) # snapshot[1].handed.positions
    /\ StateNow # states_out[1].handed[1]

\* The positions (1-based) of the groups that hold index.
Holders(index) == {k \in 1..Len(groups) : \E j \in 1..Len(groups[k]) : groups[k][j] = index}

\* C9: which_group(index) returns the list position (from 0) of the first
\* group that contains index, also when several groups contain it, and -1
\* when none does; with groups [[0,1],[2]], which_group(2) = 1 and
\* which_group(5) = -1.
C9_FirstGroupWins ==
    last.op = "which_group" =>
        /\ IF Holders(last.arg[1]) = {} THEN last.ret[1] = -1
           ELSE /\ last.ret[1] + 1 \in Holders(last.arg[1])
                /\ \A k \in Holders(last.arg[1]) : last.ret[1] + 1 <= k
        /\ groups = << <<0, 1>>, <<2>> >> =>
            /\ last.arg[1] = 2 => last.ret[1] = 1
            /\ last.arg[1] = 5 => last.ret[1] = -1

\* Agent 1 is in both groups of [[0,1],[1,2]] and is reported in group 0.
C9_Witness ==
    /\ last.op = "which_group"
    /\ groups = << <<0, 1>>, <<1, 2>> >>
    /\ last.arg = Some(1)
    /\ last.ret = Some(0)

\* C10: the descriptor row of the raw line (start_x, end_x, start_y, end_y)
\* is (start_x, start_y, end_x, end_y, ortho_x, ortho_y), with (ortho_x,
\* ortho_y) the unit vector a quarter turn counter-clockwise from the
\* direction start -> end (for a line of length 0, whose angle atan2 gives as
\* 0, that is (0, 1)); the line (0, 10, 0, 0) gets (0, 1).
C10_DescriptorRows ==
    Derived =>
        /\ Len(obstacles_raw) = Len(orig_obstacles[1])
        /\ \A k \in 1..Len(orig_obstacles[1]) :
            LET line == orig_obstacles[1][k]
                row == obstacles_raw[k]
                dx == line[2] - line[1]
                dy == line[4] - line[3]
            IN  /\ Len(row) = 6
                /\ SubSeq(row, 1, 4) = <<line[1], line[3], line[2], line[4]>>
                /\ row[5] * row[5] + row[6] * row[6] = Unit * Unit
                /\ row[5] * dx + row[6] * dy = 0
                /\ IF dx = 0 /\ dy = 0 THEN row[5] = 0 /\ row[6] = Unit
                   ELSE dx * row[6] - dy * row[5] > 0
                /\ line = LineEast => (row[5] = 0 /\ row[6] = Unit)

\* The descriptors of (0, 10, 0, 0) and of a line into the third quadrant.
C10_Witness ==
    /\ Derived
    /\ orig_obstacles = Some(<<LineEast, LineBack>>)
    /\ obstacles_raw[1] = <<0, 0, 2000, 0, 0, 200>>
    /\ obstacles_raw[2] = <<200, 0, -200, -300, 120, -160>>

\* The line list the EnvState was last given; None counts as no line.
Supplied == IF orig_obstacles = None THEN <<>> ELSE orig_obstacles[1]

\* C11: after construction and after any sequence of assignments through the
\* obstacles setter, the descriptors and the sample list are both the
\* derivation of the line list supplied last: each has one entry per supplied
\* line, in the supplied order (descriptor k carries the endpoints of line k,
\* sample list k starts at the start of line k), and nothing of an earlier
\* line list remains.
C11_DerivedFollowLatest ==
    env_alive =>
        /\ Len(obstacles_raw) = Len(Supplied)
        /\ Len(obstacles_linspace) = Len(Supplied)
        /\ \A k \in 1..Len(Supplied) :
            LET line == Supplied[k]
            IN  /\ SubSeq(obstacles_raw[k], 1, 4) = <<line[1], line[3], line[2], line[4]>>
                /\ obstacles_linspace[k] # <<>> =>
                       obstacles_linspace[k][1] = <<Ratio(line[1], 1), Ratio(line[3], 1)>>

\* C12: when the state matrix given to the constructor, to update() or to
\* the state setter that both go through has
\* exactly 6 columns, the stored state has exactly 7 columns, its first 6
\* columns equal the input and its 7th column is the configured default tau
\* for every agent; when the input has 7 columns the stored state has 7
\* columns and keeps the supplied tau values (and the other columns).
C12_TauColumn ==
    last.op \in {"construct", "update", "set_state"} =>
        /\ Rows(StateNow) = Rows(last.st)
        /\ Cols(last.st) = 6 =>
            \A i \in Agents :
                /\ Len(StateNow[i]) = 7
                /\ SubSeq(StateNow[i], 1, 6) = last.st[i]
                /\ StateNow[i][7] = config.tau
        /\ Cols(last.st) = 7 =>
            \A i \in Agents :
                /\ Len(StateNow[i]) = 7
                /\ StateNow[i][7] = last.st[i][7]
                /\ StateNow[i] = last.st[i]

\* A PedState built from 6 columns, whose taus the constructor set to the
\* default, was stepped and then updated with a 7-column matrix of other
\* taus: the state now holds the supplied taus.
C12_Witness ==
    /\ last.op = "update"
    /\ steps >= 1
    /\ Cols(built.st) = 6
    /\ Cols(last.st) = 7
    /\ \A i \in Agents : last.st[i][7] # config.tau /\ StateNow[i][7] = last.st[i][7]

\* C13: in every state reachable by construct, update(state, groups) and
\* step(force, groups), every agent index stored in every group lies in
\* [0, size()), size() being the current row count of the state matrix.
C13_GroupIndicesInRange ==
    \A k \in 1..Len(groups) :
        \A j \in 1..Len(groups[k]) :
            /\ 0 <= groups[k][j]
            /\ groups[k][j] < size(Self)

====
